---- MODULE Spec2Model ----
(***************************************************************************)
(* The terminate-handler manager of ggml (src/ggml/src/ggml.cpp).          *)
(*                                                                         *)
(* The program state is the process-wide terminate-handler slot of the C++ *)
(* runtime (std::get_terminate / std::set_terminate), the static member    *)
(* s_previous_handler, the environment variable GGML_NO_BACKTRACE and the  *)
(* GgmlTerminateHandler objects that are alive.  A fatal event is a call   *)
(* of std::terminate() on some thread; the body of                         *)
(* custom_terminate_handler is modelled statement by statement, with one   *)
(* program counter and one log of observable events per thread.            *)
(*                                                                         *)
(* Construction, destruction and the writes of other parties to the slot   *)
(* happen at load/unload boundaries: they are taken only while no thread   *)
(* is inside std::terminate().                                             *)
(***************************************************************************)
EXTENDS Naturals, Sequences, FiniteSets

(* ---------------------------- bounds ----------------------------------- *)

\* Threads that may each raise one fatal event.
NumThreads == 2
\* GgmlTerminateHandler objects alive at the same time.
MaxManagers == 2
\* Frames of custom_terminate_handler the stack of a thread can hold.
MaxDepth == 3
\* Load/unload cycles counted from the start of the process.
MaxCycles == 3

Threads == 1..NumThreads

(* ------------------------- handler values ------------------------------ *)

\* nullptr: the sentinel "no handler".
NULL == "nullptr"
\* The address of GgmlTerminateHandler::custom_terminate_handler.
custom_terminate_handler == "custom_terminate_handler"
\* Handlers of other parties: one that ends the process, one that returns.
ExternalHooks == {"host_exit", "host_return"}
HookValues == {NULL, custom_terminate_handler} \cup ExternalHooks

\* Does the external handler h end the process itself?
Terminates(h) == h = "host_exit"

VARIABLES
    slot,                 \* the runtime's terminate handler (get/set_terminate)
    s_previous_handler,   \* GgmlTerminateHandler::s_previous_handler
    no_backtrace,         \* getenv("GGML_NO_BACKTRACE") is non-null
    managers,             \* the live GgmlTerminateHandler objects, oldest first
    displaced,            \* history: the handler line 35 last replaced in the slot
    last,                 \* history: the last operation on the slot, kept until
                          \* a fatal event begins
    cycles,               \* history: the load/unload cycles since the start
    saved_by_other,       \* another party holds custom_terminate_handler, which
                          \* std::set_terminate returned to it
    pc,                   \* per thread: position inside std::terminate()
    log,                  \* per thread: observable events of its fatal event
    process               \* "running" or "terminated"

vars == <<slot, s_previous_handler, no_backtrace, managers, displaced, last,
          cycles, saved_by_other, pc, log, process>>

lifecycle == <<slot, s_previous_handler, no_backtrace, managers, displaced, last,
               cycles, saved_by_other>>

\* History kept for a live object: "skipped" when its constructor took the
\* opt-out return; "fresh" while it is the object whose constructor stored
\* s_previous_handler last, with the handler the slot held when that
\* constructor began; "stale" once a later constructor has stored it.
Manager(kind, before) == [kind |-> kind, before |-> before]

\* History of the last operation on the slot: the operation, the kind of
\* the object constructed or destroyed, and the path the code took.
Op(op, kind, path) == [op |-> op, kind |-> kind, path |-> path]

\* History of the load/unload cycles, kept while the only operations on the
\* slot since the start of the process are constructions each followed by
\* the destruction of the same object: n counts the constructions, v is the
\* handler the slot held at the start.  NoCycles once anything else happened.
Cycles(n, v) == [n |-> n, v |-> v]
NoCycles == Cycles(0, "none")

Ev(kind, h) == [ev |-> kind, h |-> h]

Quiescent == process = "running" /\ \A t \in Threads : pc[t] = "idle"

Init ==
    /\ slot \in ExternalHooks \cup {NULL}
    /\ s_previous_handler = NULL
    /\ no_backtrace \in BOOLEAN
    /\ managers = << >>
    /\ displaced = NULL
    /\ last = Op("init", "none", "none")
    /\ cycles = Cycles(0, slot)
    /\ saved_by_other = FALSE
    /\ pc = [t \in Threads |-> "idle"]
    /\ log = [t \in Threads |-> << >>]
    /\ process = "running"

(* -------------------- constructor and destructor ----------------------- *)

\* Variant of Ctor_previous: the constructor installs the handler without
\* storing the handler it replaces (line 26 left out).
Ctor_previous_forgets(optout, cur, old) ==
    old

\* Lines 19-36, the value of s_previous_handler when the constructor returns:
\* untouched on the opt-out return (line 22), otherwise the handler read from
\* the slot (line 26), stored before the identity test of line 31.
Ctor_previous(optout, cur, old) ==
    IF optout THEN old ELSE cur

\* Variant of Ctor_slot: the constructor saves the handler but leaves out the
\* std::set_terminate call of line 35.
Ctor_slot_saves_only(optout, cur) ==
    cur

\* Lines 19-36, the slot when the constructor returns: untouched on the
\* opt-out return and when it already holds custom_terminate_handler
\* (line 32), otherwise custom_terminate_handler (line 35).
Ctor_slot(optout, cur) ==
    IF optout THEN cur
    ELSE IF cur = custom_terminate_handler THEN cur
    ELSE custom_terminate_handler

\* Variant of Dtor_slot: the destructor resets the slot to nullptr instead of
\* restoring s_previous_handler.
Dtor_slot_resets(cur, prev) ==
    IF cur = custom_terminate_handler THEN NULL ELSE cur

\* Variant of Dtor_slot: the destructor restores without the test of line 42.
Dtor_slot_unguarded(cur, prev) ==
    prev

\* Variant of Dtor_slot: the destructor restores nothing.
Dtor_slot_keeps(cur, prev) ==
    cur

\* Lines 38-45, the slot when the destructor returns.
Dtor_slot(cur, prev) ==
    IF cur = custom_terminate_handler THEN prev ELSE cur

\* A constructor that stores into s_previous_handler ends the freshness of
\* every older object.
Stale(ms) ==
    [i \in 1..Len(ms) |->
        IF ms[i].kind = "fresh" THEN Manager("stale", NULL) ELSE ms[i]]

\* GgmlTerminateHandler::GgmlTerminateHandler()
GgmlTerminateHandler ==
    /\ Quiescent
    /\ Len(managers) < MaxManagers
    /\ cycles.n < MaxCycles
    /\ LET optout == no_backtrace
           m == IF optout THEN Manager("skipped", NULL) ELSE Manager("fresh", slot)
           path == IF optout THEN "optout"
                   ELSE IF slot = custom_terminate_handler THEN "already"
                   ELSE "installed"
       IN /\ s_previous_handler' = Ctor_previous(optout, slot, s_previous_handler)
          /\ slot' = Ctor_slot(optout, slot)
          /\ managers' = Append(IF optout THEN managers ELSE Stale(managers), m)
          /\ displaced' = IF path = "installed" THEN slot ELSE displaced
          /\ last' = Op("ctor", m.kind, path)
          /\ cycles' = IF cycles # NoCycles /\ managers = << >>
                       THEN Cycles(cycles.n + 1, cycles.v) ELSE NoCycles
    /\ UNCHANGED <<no_backtrace, saved_by_other, pc, log, process>>

Remove(ms, i) == [j \in 1..(Len(ms) - 1) |-> IF j < i THEN ms[j] ELSE ms[j + 1]]

\* GgmlTerminateHandler::~GgmlTerminateHandler() of the i-th live object
Destroy(i) ==
    /\ Quiescent
    /\ i \in 1..Len(managers)
    /\ slot' = Dtor_slot(slot, s_previous_handler)
    /\ managers' = Remove(managers, i)
    /\ last' = Op("dtor", managers[i].kind,
                  IF slot # custom_terminate_handler THEN "left"
                  ELSE IF last = Op("restore", "none", "lifo") THEN "restored_lifo"
                  ELSE "restored")
    /\ UNCHANGED <<s_previous_handler, no_backtrace, displaced, cycles, saved_by_other,
                   pc, log, process>>

(* ------------------------- the environment ----------------------------- *)

\* Another part of the program calls std::set_terminate(h) with its own
\* handler or nullptr (the case lines 39-41 guard against).  The call returns
\* the handler it replaces: custom_terminate_handler, when that was installed.
SetTerminate(h) ==
    /\ Quiescent
    /\ h \in ExternalHooks \cup {NULL}
    /\ h # slot
    /\ slot' = h
    /\ saved_by_other' = (saved_by_other \/ slot = custom_terminate_handler)
    /\ last' = Op("set", "none",
                  IF slot = custom_terminate_handler THEN "saved" ELSE "none")
    /\ cycles' = NoCycles
    /\ UNCHANGED <<s_previous_handler, no_backtrace, managers, displaced, pc, log, process>>

\* The party that replaced custom_terminate_handler puts it back, as the
\* destructor of lines 38-45 does for the handler it saved: "lifo" when the
\* party's own std::set_terminate call was the last operation on the slot.
RestoreTerminate ==
    /\ Quiescent
    /\ saved_by_other
    /\ slot # custom_terminate_handler
    /\ slot' = custom_terminate_handler
    /\ saved_by_other' = FALSE
    /\ last' = Op("restore", "none",
                  IF last = Op("set", "none", "saved") THEN "lifo" ELSE "late")
    /\ cycles' = NoCycles
    /\ UNCHANGED <<s_previous_handler, no_backtrace, managers, displaced, pc, log, process>>

\* The user sets or unsets GGML_NO_BACKTRACE (read at line 21).
SetEnv ==
    /\ Quiescent
    /\ no_backtrace' = ~no_backtrace
    /\ UNCHANGED <<slot, s_previous_handler, managers, displaced, last, cycles,
                   saved_by_other, pc, log, process>>

(* --------------------------- fatal events ------------------------------ *)

Emit(t, e) == log' = [log EXCEPT ![t] = Append(@, e)]

Count(sq, kind) == Cardinality({i \in 1..Len(sq) : sq[i].ev = kind})

\* Frames of custom_terminate_handler on the stack of thread t.
Depth(t) == Count(log[t], "enter") - Count(log[t], "return")

\* The external handler thread t is running: the one it called last.
Running(t) == log[t][Len(log[t])].h

\* Thread t calls custom_terminate_handler: a new frame, or no room for one.
EnterCustom(t) ==
    IF Depth(t) < MaxDepth
    THEN /\ pc' = [pc EXCEPT ![t] = "L50"]
         /\ Emit(t, Ev("enter", custom_terminate_handler))
         /\ UNCHANGED process
    ELSE /\ pc' = [pc EXCEPT ![t] = "dead"]
         /\ Emit(t, Ev("overflow", custom_terminate_handler))
         /\ process' = "terminated"

\* std::terminate() on thread t: the runtime calls the handler in the slot;
\* with none registered it ends the process itself.  From here on no
\* constructor, destructor or std::set_terminate call runs, and the history
\* of the last such operation is dropped.
Terminate(t) ==
    /\ process = "running"
    /\ pc[t] = "idle"
    /\ IF slot = custom_terminate_handler THEN EnterCustom(t)
       ELSE IF slot = NULL
       THEN /\ pc' = [pc EXCEPT ![t] = "dead"]
            /\ Emit(t, Ev("abort", NULL))
            /\ process' = "terminated"
       ELSE /\ pc' = [pc EXCEPT ![t] = "rt_hook"]
            /\ Emit(t, Ev("call", slot))
            /\ UNCHANGED process
    /\ last' = Op("fatal", "none", "none")
    /\ UNCHANGED <<slot, s_previous_handler, no_backtrace, managers, displaced, cycles,
                   saved_by_other>>

\* Variant of L50: the call of ggml_print_backtrace() is left out.
L50_silent(t) ==
    /\ process = "running"
    /\ pc[t] = "L50"
    /\ pc' = [pc EXCEPT ![t] = "L52"]
    /\ UNCHANGED <<lifecycle, log, process>>

\* Variant of L50: the backtrace is taken under a lock that a thread further
\* down the handler holds until the process ends.
L50_locked(t) ==
    /\ process = "running"
    /\ pc[t] = "L50"
    /\ \A u \in Threads \ {t} : pc[u] \notin {"L52", "L53", "L56"}
    /\ pc' = [pc EXCEPT ![t] = "L52"]
    /\ Emit(t, Ev("backtrace", NULL))
    /\ UNCHANGED <<lifecycle, process>>

\* Line 50: ggml_print_backtrace();
L50(t) ==
    /\ process = "running"
    /\ pc[t] = "L50"
    /\ pc' = [pc EXCEPT ![t] = "L52"]
    /\ Emit(t, Ev("backtrace", NULL))
    /\ UNCHANGED <<lifecycle, process>>

\* Lines 52-54: if (s_previous_handler) { s_previous_handler(); }
L52(t) ==
    /\ process = "running"
    /\ pc[t] = "L52"
    /\ IF s_previous_handler = NULL
       THEN /\ pc' = [pc EXCEPT ![t] = "L56"]
            /\ UNCHANGED <<log, process>>
       ELSE IF s_previous_handler = custom_terminate_handler
       THEN EnterCustom(t)
       ELSE /\ pc' = [pc EXCEPT ![t] = "L53"]
            /\ Emit(t, Ev("call", s_previous_handler))
            /\ UNCHANGED process
    /\ UNCHANGED lifecycle

\* The external handler called at line 53 (pc L53) or by the runtime
\* (pc rt_hook) runs: it ends the process or returns to its caller.
HookRuns(t) ==
    /\ process = "running"
    /\ pc[t] \in {"L53", "rt_hook"}
    /\ IF Terminates(Running(t))
       THEN /\ pc' = [pc EXCEPT ![t] = "dead"]
            /\ Emit(t, Ev("exit", Running(t)))
            /\ process' = "terminated"
       ELSE /\ pc' = [pc EXCEPT ![t] = IF pc[t] = "L53" THEN "L56" ELSE "rt_abort"]
            /\ Emit(t, Ev("ret", Running(t)))
            /\ UNCHANGED process
    /\ UNCHANGED lifecycle

\* Variant of L56: no abort(); the handler returns to its caller, which is
\* line 53 of the frame below or, from the outermost frame, the runtime.
L56_returns(t) ==
    /\ process = "running"
    /\ pc[t] = "L56"
    /\ pc' = [pc EXCEPT ![t] = IF Depth(t) = 1 THEN "returned" ELSE "L56"]
    /\ Emit(t, Ev("return", custom_terminate_handler))
    /\ UNCHANGED <<lifecycle, process>>

\* Line 56: abort();
L56(t) ==
    /\ process = "running"
    /\ pc[t] = "L56"
    /\ pc' = [pc EXCEPT ![t] = "dead"]
    /\ Emit(t, Ev("abort", NULL))
    /\ process' = "terminated"
    /\ UNCHANGED lifecycle

\* A handler called by the runtime returned: std::terminate() aborts.
RuntimeAbort(t) ==
    /\ process = "running"
    /\ pc[t] = "rt_abort"
    /\ pc' = [pc EXCEPT ![t] = "dead"]
    /\ Emit(t, Ev("abort", NULL))
    /\ process' = "terminated"
    /\ UNCHANGED lifecycle

\* One step of thread t inside std::terminate().
Step(t) == L50(t) \/ L52(t) \/ HookRuns(t) \/ L56(t) \/ RuntimeAbort(t)

(* -------------------------- specifications ----------------------------- *)

Next ==
    \/ GgmlTerminateHandler
    \/ \E i \in 1..MaxManagers : Destroy(i)
    \/ \E h \in ExternalHooks \cup {NULL} : SetTerminate(h)
    \/ RestoreTerminate
    \/ SetEnv
    \/ \E t \in Threads : Terminate(t)
    \/ \E t \in Threads : Step(t)

Spec == Init /\ [][Next]_vars

\* A thread inside std::terminate() keeps running until the process ends.
FairSpec == Spec /\ \A t \in Threads : WF_vars(Step(t))

PcValues == {"idle", "L50", "L52", "L53", "L56", "rt_hook", "rt_abort", "returned", "dead"}

TypeOK ==
    /\ slot \in HookValues
    /\ s_previous_handler \in HookValues
    /\ no_backtrace \in BOOLEAN
    /\ Len(managers) <= MaxManagers
    /\ displaced \in HookValues
    /\ saved_by_other \in BOOLEAN
    /\ pc \in [Threads -> PcValues]
    /\ process \in {"running", "terminated"}

(* ------------------------------ claims --------------------------------- *)

\* Thread t's fatal event entered custom_terminate_handler.
Hooked(t) == log[t] # << >> /\ log[t][1].ev = "enter"

\* C1: once custom_terminate_handler has been entered (whatever
\* s_previous_handler is: nullptr, a handler that ends the process, a handler
\* that returns), the handler never returns to the runtime that called it,
\* and the process ends.
C1_NeverReturns ==
    /\ [](\A t \in Threads : pc[t] # "returned")
    /\ (\E t \in Threads : pc[t] = "L50") ~> (process = "terminated")

\* C1 witness: a fatal event whose previous handler returned ended in abort().
C1_Witness ==
    /\ process = "terminated"
    /\ \E t \in Threads :
          /\ pc[t] = "dead"
          /\ log[t] = << Ev("enter", custom_terminate_handler), Ev("backtrace", NULL),
                         Ev("call", "host_return"), Ev("ret", "host_return"),
                         Ev("abort", NULL) >>

\* The step is a constructor call / the destructor call of the i-th object.
CtorStep == Len(managers') = Len(managers) + 1
DtorStep(i) == i \in 1..Len(managers) /\ managers' = Remove(managers, i)

\* C2: an object whose constructor did not opt out and stored
\* s_previous_handler last, destroyed while the slot holds
\* custom_terminate_handler, leaves in the slot the handler the slot held
\* when its constructor began.
C2_RestoreCorrectness ==
    [][\A i \in 1..Len(managers) :
          (DtorStep(i) /\ managers[i].kind = "fresh"
                       /\ slot = custom_terminate_handler)
          => slot' = managers[i].before]_vars

\* C2 witness: such a destructor has just put a handler of the host back.
C2_Witness ==
    /\ last = Op("dtor", "fresh", "restored")
    /\ slot \in ExternalHooks
    /\ managers = << >>

\* C3: a destructor that finds another handler than custom_terminate_handler
\* in the slot does not write the slot.
C3_ClobberAvoidance ==
    [][\A i \in 1..Len(managers) :
          (DtorStep(i) /\ slot # custom_terminate_handler) => slot' = slot]_vars

\* C3 witness: an object that had installed the handler was destroyed after
\* another party had put its own handler B into the slot, and B is still there.
C3_Witness ==
    /\ last = Op("dtor", "fresh", "left")
    /\ slot \in ExternalHooks
    /\ slot # s_previous_handler

\* C4 (as claimed): with GGML_NO_BACKTRACE set, the constructor changes
\* neither the slot nor s_previous_handler, and the destructor of an object
\* so constructed does not change the slot, whatever the slot holds.
C4_OptOutNoOp ==
    [][/\ (CtorStep /\ no_backtrace)
            => (slot' = slot /\ s_previous_handler' = s_previous_handler)
       /\ \A i \in 1..Len(managers) :
            (DtorStep(i) /\ managers[i].kind = "skipped") => slot' = slot]_vars

\* C5 (as claimed): a constructor that runs without opt-out while another
\* object is alive and the slot holds custom_terminate_handler changes
\* neither the slot nor s_previous_handler.
C5_IdempotentInstall ==
    [][(CtorStep /\ ~no_backtrace /\ managers # << >>
                 /\ slot = custom_terminate_handler)
       => (slot' = slot /\ s_previous_handler' = s_previous_handler)]_vars

\* Calls of ggml_print_backtrace() during thread t's fatal event.
Backtraces(t) == Count(log[t], "backtrace")

\* Invocations of s_previous_handler (line 53) during thread t's fatal
\* event: calls of an external handler, nested entries of
\* custom_terminate_handler and the entry that found no stack left.
PrevInvocations(t) ==
    Cardinality({i \in 2..Len(log[t]) : log[t][i].ev \in {"call", "enter", "overflow"}})

\* C6 (as claimed): a fatal event that enters custom_terminate_handler emits
\* one backtrace, never more, however many constructors ran before it.
C6_OneBacktrace ==
    \A t \in Threads :
        Hooked(t) => /\ Backtraces(t) <= 1
                     /\ pc[t] = "dead" => Backtraces(t) = 1

\* C7 (as claimed): with the handler installed and s_previous_handler
\* non-null, a fatal event invokes s_previous_handler once: not a second
\* time, and not zero times when the event has ended.
C7_ChainOnce ==
    \A t \in Threads :
        (Hooked(t) /\ s_previous_handler # NULL)
        => /\ PrevInvocations(t) <= 1
           /\ pc[t] = "dead" => PrevInvocations(t) = 1

\* C8: inside a fatal event that enters custom_terminate_handler, every
\* frame emits its backtrace first; s_previous_handler is invoked only right
\* after the backtrace of its frame and only if it is non-null; abort() comes
\* only after the backtrace (no previous handler) or after the previous
\* handler returned; and once the previous handler has returned, abort() is
\* the next thing the thread does.
C8_Order ==
    \A t \in Threads :
        Hooked(t) =>
            LET sq == log[t]
                n == Len(sq)
            IN /\ \A i \in 1..n :
                    /\ sq[i].ev = "enter" =>
                          /\ i < n => sq[i + 1].ev = "backtrace"
                          /\ i = n => pc[t] = "L50"
                          /\ i > 1 => sq[i - 1].ev = "backtrace"
                    /\ sq[i].ev \in {"call", "overflow"} =>
                          /\ sq[i - 1].ev = "backtrace"
                          /\ sq[i].h = s_previous_handler
                          /\ s_previous_handler # NULL
                    /\ sq[i].ev = "abort" =>
                          \/ sq[i - 1].ev = "ret"
                          \/ sq[i - 1].ev = "backtrace" /\ s_previous_handler = NULL
                    /\ sq[i].ev = "ret" =>
                          /\ i < n => sq[i + 1].ev = "abort"
                          /\ i = n => pc[t] = "L56"
               /\ sq[1].ev = "enter"
               /\ pc[t] \in {"L52", "L53", "L56"} => Backtraces(t) >= 1

\* C8 witness: backtrace, then the previous handler, which returned, then
\* abort().
C8_Witness ==
    \E t \in Threads :
        /\ pc[t] = "dead"
        /\ Len(log[t]) = 5
        /\ log[t][2].ev = "backtrace"
        /\ log[t][3] = Ev("call", s_previous_handler)
        /\ log[t][4].ev = "ret"
        /\ log[t][5].ev = "abort"

\* C9 (as claimed): when a destructor has run, the slot does not hold
\* custom_terminate_handler.
C9_NoDanglingHandler ==
    last.op = "dtor" => slot # custom_terminate_handler

\* What a fatal event shows when the runtime finds h in the slot: h is
\* called, and the process ends in h or, when h returns or is null, in abort.
Unhooked(h) ==
    IF h = NULL THEN << Ev("abort", NULL) >>
    ELSE IF Terminates(h) THEN << Ev("call", h), Ev("exit", h) >>
    ELSE << Ev("call", h), Ev("ret", h), Ev("abort", NULL) >>

\* What thread t's fatal event shows outside the handler's own frames.
IsObservable(e) == e.ev # "enter"
Observable(t) == SelectSeq(log[t], IsObservable)

\* C10 (as claimed): a fatal event that ends with the handler installed over
\* the prior handler h shows one backtrace followed by what the event shows
\* with h alone in the slot.
C10_SameAsUnhooked ==
    \A t \in Threads :
        pc[t] = "dead" =>
            IF Hooked(t)
            THEN Observable(t) = << Ev("backtrace", NULL) >> \o Unhooked(displaced)
            ELSE log[t] = Unhooked(slot)

\* C11: a constructor that runs with GGML_NO_BACKTRACE unset while the slot
\* holds a handler h other than custom_terminate_handler stores h in
\* s_previous_handler and puts custom_terminate_handler into the slot.
C11_InstallEffect ==
    [][(CtorStep /\ ~no_backtrace /\ slot # custom_terminate_handler)
       => (s_previous_handler' = slot /\ slot' = custom_terminate_handler)]_vars

\* C11 witness: the constructor has just installed the handler over a
\* handler of the host, which it saved.
C11_Witness ==
    /\ last = Op("ctor", "fresh", "installed")
    /\ slot = custom_terminate_handler
    /\ s_previous_handler \in ExternalHooks
    /\ displaced = s_previous_handler

\* C12 (amended): while the process has seen nothing but load/unload cycles (a
\* construction, then the destruction of that object, any number of times),
\* the slot holds its initial handler v whenever no object is alive, and a
\* fatal event raised while the handler is installed emits one backtrace and
\* then shows what v alone shows: v is called once (there is nothing to call
\* when v is nullptr) and the process ends.
C12_RepeatedCycles ==
    cycles # NoCycles =>
        /\ managers = << >> => slot = cycles.v
        /\ \A t \in Threads :
              Hooked(t) =>
                 /\ Backtraces(t) <= 1
                 /\ PrevInvocations(t) <= 1
                 /\ pc[t] = "dead" =>
                       Observable(t) = << Ev("backtrace", NULL) >> \o Unhooked(cycles.v)

\* C12 witness: a fatal event raised in the third cycle, over a handler of
\* the host, has ended.
C12_Witness ==
    /\ cycles.n >= 3
    /\ cycles.v \in ExternalHooks
    /\ \E t \in Threads : pc[t] = "dead" /\ Hooked(t)

\* C12 (as claimed): as C12, with v invoked once for every initial handler
\* v, nullptr included.
C12_InvokesInitialOnce ==
    cycles # NoCycles =>
        /\ managers = << >> => slot = cycles.v
        /\ \A t \in Threads :
              (Hooked(t) /\ pc[t] = "dead") =>
                 /\ Backtraces(t) = 1
                 /\ Cardinality({i \in 1..Len(log[t]) :
                                    log[t][i] = Ev("call", cycles.v)}) = 1

\* Thread t is inside custom_terminate_handler or the handler it called.
InHandler(t) == pc[t] \in {"L50", "L52", "L53", "L56"}

\* C13: with custom_terminate_handler running on several threads at once,
\* no step of a fatal event writes the slot or s_previous_handler, a thread
\* inside the handler can always take its next step whatever the other
\* threads are doing (it never waits for a lock or for another invocation),
\* and the process ends.
C13_LockFree ==
    /\ [][pc' # pc => (slot' = slot /\ s_previous_handler' = s_previous_handler)]_vars
    /\ [](\A t \in Threads : (process = "running" /\ InHandler(t)) => ENABLED Step(t))
    /\ (\E t, u \in Threads : t # u /\ InHandler(t) /\ InHandler(u))
          ~> (process = "terminated")

\* C13 witness: two threads were inside the handler at once, each past its
\* backtrace, when the process ended.
C13_Witness ==
    /\ process = "terminated"
    /\ \E t, u \in Threads :
          /\ t # u
          /\ Hooked(t) /\ Backtraces(t) >= 1
          /\ Hooked(u) /\ Backtraces(u) >= 1

\* C14 (as claimed): s_previous_handler is never custom_terminate_handler.
C14_NoSelfLoop ==
    s_previous_handler # custom_terminate_handler

\* C15: an object whose constructor stored s_previous_handler last, destroyed
\* right after another party that had replaced custom_terminate_handler by
\* its own handler has put custom_terminate_handler back, leaves in the slot
\* the handler the slot held when the object's constructor began.
C15_NestedRestore ==
    [][\A i \in 1..Len(managers) :
          (DtorStep(i) /\ managers[i].kind = "fresh"
                       /\ last = Op("restore", "none", "lifo"))
          => slot' = managers[i].before]_vars

\* C15 witness: after construct, replace, put back and destroy, the slot
\* holds a handler of the host again and no object is alive.
C15_Witness ==
    /\ last = Op("dtor", "fresh", "restored_lifo")
    /\ slot \in ExternalHooks
    /\ managers = << >>

====
